---- MODULE Spec2Model ----
(***************************************************************************)
(* A model of bigquery_ddl_deploy.py: the ProjectRepoHashes hash store     *)
(* (load, lookup, update, save against a MongoDB collection), the DDL file *)
(* locator and the deploy() loop, run as processes against one shared      *)
(* collection and one DDL directory.  A process slot whose process has     *)
(* ended is taken again by the next run.                                   *)
(*                                                                         *)
(* File names are numbered 1..NFiles; the order of the numbers stands for  *)
(* the string order of the joined paths.  File contents are numbered       *)
(* 1..NContents.  Time is a counter read by datetime.utcnow().             *)
(***************************************************************************)
EXTENDS Integers, Sequences, FiniteSets, TLC

\* ------------------------------------------------------------- bounds
NFiles == 2
NContents == 2
MaxRuns == 2
MaxEdits == 1
MaxCalls == 3

\* ------------------------------------------------- program constants
\* sys.exit(3)
ExitFailure == 3
\* The number of digests md5 has, in the model.
NDigests == 2

Procs == {1, 2}
Names == 1..NFiles
Contents == 1..NContents

VARIABLES
    store,       \* the bigQueryDeployHash collection: documents in natural order
    disk,        \* content of each .sql file of the DDL folder, NoFile if missing
    clock,       \* the time datetime.utcnow() returns
    edits,       \* how many times the folder was edited (bounded by MaxEdits)
    runs,        \* how many runs were started (bounded by MaxRuns)
    pc,          \* per run: the position of the process in main()/deploy()
    hashes,      \* per run: ProjectRepoHashes.hashes, the in-memory record
    filesdict,   \* per run: ProjectRepoHashes.filesdict, name -> index in files
    ddl_files,   \* per run: the list find_ddl_files returned
    idx,         \* per run: position of the for loop in ddl_files
    sql,         \* per run: the text get_sql read for the current file
    matched,     \* per run: what matches_saved_hash returned for the current file
    exitcode,    \* per run: <<>> while running or killed, <<code>> once exited
    fstate,      \* per run, per file: the orchestrator state the file reached
    listing,     \* per run: how os.listdir ended: "none", "ok" or "oserror"
    executed,    \* per run, per file: the text execute_sql ran successfully, or NoFile
    deployed,    \* per file: the text execute_sql ran successfully before the last save
                 \* of the file that completed
    lostExec,    \* per file: the text execute_sql ran successfully in a process that
                 \* was lost before its save completed, no save of the file since
    raced        \* whether some run was constructed while another was still running

vars == <<store, disk, clock, edits, runs, pc, hashes, filesdict, ddl_files, idx, sql,
          matched, exitcode, fstate, listing, executed, deployed, lostExec, raced>>

\* ------------------------------------------------------------ values
NoFile == 0
NoRecord == [_id |-> 0, triple |-> <<>>, create_date |-> 0, update_date |-> 0,
             files |-> <<>>]

\* (project_name, repo_name, google_project_id) of the runs, and of a record
\* that another repository target keeps in the same collection
Triple == <<"owner", "repo", "gcp-a">>
OtherTriple == <<"owner", "repo", "gcp-b">>

\* hashlib.md5(text.encode("utf-8")).hexdigest(): a digest is never the empty
\* string (EmptyHash); distinct texts may collide.
EmptyHash == 0
MD5(text) == (text % NDigests) + 1


\* ------------------------------------------------- the MongoDB collection
\* find_one(filter): the first document, in natural order, of the triple; None
\* (NoRecord) when there is none.
RECURSIVE FindOne(_, _)
FindOne(coll, triple) ==
    IF coll = <<>> THEN NoRecord
    ELSE IF Head(coll).triple = triple THEN Head(coll)
    ELSE FindOne(Tail(coll), triple)

\* The ObjectId insert_one gives a document that has no "_id".
NewId(coll) == Len(coll) + 1

\* insert_one(doc): the document is stored under a new identity.
InsertOne(coll, doc) == Append(coll, [doc EXCEPT !._id = NewId(coll)])

\* replace_one({"_id": id}, doc): the first document of that identity is
\* replaced whole; nothing happens when there is none (no upsert).
ReplaceOne(coll, id, doc) ==
    IF \E i \in 1..Len(coll) : coll[i]._id = id
    THEN LET k == CHOOSE i \in 1..Len(coll) :
                    /\ coll[i]._id = id
                    /\ \A j \in 1..(i - 1) : coll[j]._id # id
         IN [coll EXCEPT ![k] = doc]
    ELSE coll

\* -------------------------------------------------- ProjectRepoHashes
\* Mutant of LoadHashes: the record found is ignored and a new one made.
LoadHashesAlwaysNew(coll, now) ==
    [_id |-> 0, triple |-> Triple, create_date |-> now, update_date |-> now,
     files |-> <<>>]

\* __init__: the record found for the triple, or a new one with no "_id" and no
\* files; update_date is stamped either way.
LoadHashes(coll, now) ==
    LET found == FindOne(coll, Triple)
        h == IF found = NoRecord
             THEN [_id |-> 0, triple |-> Triple, create_date |-> now,
                   update_date |-> 0, files |-> <<>>]
             ELSE found
    IN [h EXCEPT !.update_date = now]

\* dict((f["file_name"], f) for f in files): each name refers to the last entry
\* of that name; the reference is modelled as the entry's index in files.
FilesDict(files) ==
    [n \in {files[i].file_name : i \in 1..Len(files)} |->
        CHOOSE i \in 1..Len(files) :
            /\ files[i].file_name = n
            /\ \A j \in (i + 1)..Len(files) : files[j].file_name # n]

GetFileHash(h, fd, file_name) ==
    IF file_name \in DOMAIN fd THEN h.files[fd[file_name]].file_hash ELSE EmptyHash

MatchesSavedHash(h, fd, file_name, text) ==
    MD5(text) = GetFileHash(h, fd, file_name)

\* Mutant of UpdatedHashes: an existing entry gets a new deploy_date and keeps
\* its old file_hash.
UpdatedHashesDateOnly(h, fd, file_name, text, now) ==
    IF file_name \in DOMAIN fd
    THEN [h EXCEPT !.files[fd[file_name]].deploy_date = now]
    ELSE [h EXCEPT !.files = Append(@, [file_name |-> file_name,
                                        file_hash |-> MD5(text),
                                        deploy_date |-> now,
                                        create_date |-> now])]

\* Mutant of UpdatedHashes: an entry is appended whether or not the name has one.
UpdatedHashesAlwaysAppend(h, fd, file_name, text, now) ==
    [h EXCEPT !.files = Append(@, [file_name |-> file_name,
                                   file_hash |-> MD5(text),
                                   deploy_date |-> now,
                                   create_date |-> now])]

\* update_saved_hash, the record: an entry of that name is changed in place,
\* otherwise a new entry is appended.
UpdatedHashes(h, fd, file_name, text, now) ==
    IF file_name \in DOMAIN fd
    THEN [h EXCEPT !.files[fd[file_name]].file_hash = MD5(text),
                   !.files[fd[file_name]].deploy_date = now]
    ELSE [h EXCEPT !.files = Append(@, [file_name |-> file_name,
                                        file_hash |-> MD5(text),
                                        deploy_date |-> now,
                                        create_date |-> now])]

\* update_saved_hash, the index: a new name refers to the appended entry.
UpdatedFilesdict(h, fd, file_name) ==
    IF file_name \in DOMAIN fd
    THEN fd
    ELSE [n \in DOMAIN fd \cup {file_name} |->
            IF n = file_name THEN Len(h.files) + 1 ELSE fd[n]]

\* Mutant of SavedStore: the replace of a record that has an identity matches
\* nothing.
SavedStoreNoReplace(coll, h) ==
    IF h._id # 0 THEN coll ELSE InsertOne(coll, h)

\* save, the collection: replace by identity when the record has one, insert
\* otherwise.
SavedStore(coll, h) ==
    IF h._id # 0 THEN ReplaceOne(coll, h._id, h) ELSE InsertOne(coll, h)

\* Mutant of SavedHashes: the inserted record is not given its identity.
SavedHashesNoId(coll, h) == h

\* save, the record: insert_one sets "_id" on the dict it was given.
SavedHashes(coll, h) ==
    IF h._id # 0 THEN h ELSE [h EXCEPT !._id = NewId(coll)]

\* ------------------------------------------------------ find_ddl_files
\* The folder's entries: the .sql files on disk, a file of another suffix
\* (name 0) and a subdirectory whose name ends with .sql (name NFiles + 1).
DirEntries ==
    {[name |-> n, suffix |-> TRUE, isfile |-> TRUE] : n \in {m \in Names : disk[m] # NoFile}}
    \cup {[name |-> 0, suffix |-> FALSE, isfile |-> TRUE],
          [name |-> NFiles + 1, suffix |-> TRUE, isfile |-> FALSE]}

\* The orders os.listdir may return the entries in.
RECURSIVE Listings(_)
Listings(S) ==
    IF S = {} THEN {<<>>}
    ELSE UNION {{<<x>> \o l : l \in Listings(S \ {x})} : x \in S}

RECURSIVE DdlFilter(_)
DdlFilter(l) ==
    IF l = <<>> THEN <<>>
    ELSE IF Head(l).suffix /\ Head(l).isfile
         THEN <<Head(l).name>> \o DdlFilter(Tail(l))
         ELSE DdlFilter(Tail(l))

RECURSIVE InsertSorted(_, _)
InsertSorted(x, s) ==
    IF s = <<>> THEN <<x>>
    ELSE IF x <= Head(s) THEN <<x>> \o s
    ELSE <<Head(s)>> \o InsertSorted(x, Tail(s))

\* list.sort()
RECURSIVE SortFiles(_)
SortFiles(s) == IF s = <<>> THEN <<>> ELSE InsertSorted(Head(s), SortFiles(Tail(s)))

\* Mutant of FindDdlFiles: the list is returned in listing order.
FindDdlFilesUnsorted(l) == DdlFilter(l)

FindDdlFiles(l) == SortFiles(DdlFilter(l))

\* ------------------------------------------------------------- state
Active(r) == pc[r] \notin {"idle", "exited", "killed"}

\* The file the for loop of run r is at.
Current(r) == ddl_files[r][idx[r]]

\* A record of another target in the same collection.
OtherRecord ==
    [_id |-> 1, triple |-> OtherTriple, create_date |-> 0, update_date |-> 0,
     files |-> <<[file_name |-> 1, file_hash |-> MD5(1), deploy_date |-> 0,
                  create_date |-> 0]>>]

\* The record an earlier deployment of the folder left, every file then
\* holding text 2.
EarlierRecord ==
    [_id |-> 2, triple |-> Triple, create_date |-> 0, update_date |-> 0,
     files |-> [n \in Names |-> [file_name |-> n, file_hash |-> MD5(2),
                                 deploy_date |-> 0, create_date |-> 0]]]

Init ==
    /\ store \in {<<>>, <<OtherRecord>>, <<OtherRecord, EarlierRecord>>}
    /\ disk = [n \in Names |-> 1]
    /\ clock = 1
    /\ edits = 0
    /\ runs = 0
    /\ pc = [r \in Procs |-> "idle"]
    /\ hashes = [r \in Procs |-> NoRecord]
    /\ filesdict = [r \in Procs |-> <<>>]
    /\ ddl_files = [r \in Procs |-> <<>>]
    /\ idx = [r \in Procs |-> 1]
    /\ sql = [r \in Procs |-> NoFile]
    /\ matched = [r \in Procs |-> FALSE]
    /\ exitcode = [r \in Procs |-> <<>>]
    /\ fstate = [r \in Procs |-> [n \in Names |-> "None"]]
    /\ listing = [r \in Procs |-> "none"]
    /\ executed = [r \in Procs |-> [n \in Names |-> NoFile]]
    /\ deployed = [n \in Names |-> IF FindOne(store, Triple) = NoRecord THEN NoFile ELSE 2]
    /\ lostExec = [n \in Names |-> NoFile]
    /\ raced = FALSE

\* ----------------------------------------------------------- actions
\* A file of the DDL folder is written, created or removed between runs.
EditFile(n, c) ==
    /\ \A r \in Procs : ~Active(r)
    /\ runs < MaxRuns
    /\ edits < MaxEdits
    /\ c # disk[n]
    /\ disk' = [disk EXCEPT ![n] = c]
    /\ edits' = edits + 1
    /\ UNCHANGED <<store, clock, runs, pc, hashes, filesdict, ddl_files, idx, sql,
                   matched, exitcode, fstate, listing, executed, deployed, lostExec,
                   raced>>

\* A run starts in the lowest free slot: deploy() constructs its
\* ProjectRepoHashes.  With sequential set, a run starts only when no other run
\* is under way.
Load(r, sequential) ==
    /\ ~Active(r)
    /\ \A q \in Procs : q < r => Active(q)
    /\ sequential => \A q \in Procs : ~Active(q)
    /\ ~sequential => pc[r] = "idle"
    /\ runs < MaxRuns
    /\ runs' = runs + 1
    /\ hashes' = [hashes EXCEPT ![r] = LoadHashes(store, clock)]
    /\ filesdict' = [filesdict EXCEPT ![r] = FilesDict(hashes'[r].files)]
    /\ clock' = clock + 1
    /\ pc' = [pc EXCEPT ![r] = "find"]
    /\ ddl_files' = [ddl_files EXCEPT ![r] = <<>>]
    /\ idx' = [idx EXCEPT ![r] = 1]
    /\ sql' = [sql EXCEPT ![r] = NoFile]
    /\ matched' = [matched EXCEPT ![r] = FALSE]
    /\ exitcode' = [exitcode EXCEPT ![r] = <<>>]
    /\ fstate' = [fstate EXCEPT ![r] = [n \in Names |-> "None"]]
    /\ listing' = [listing EXCEPT ![r] = "none"]
    /\ executed' = [executed EXCEPT ![r] = [n \in Names |-> NoFile]]
    /\ raced' = (raced \/ \E q \in Procs : Active(q))
    /\ UNCHANGED <<store, disk, edits, deployed, lostExec>>

\* find_ddl_files, the directory listed in some order.
FindOk(r) ==
    /\ pc[r] = "find"
    /\ \E l \in Listings(DirEntries) :
          /\ ddl_files' = [ddl_files EXCEPT ![r] = FindDdlFiles(l)]
          /\ fstate' = [fstate EXCEPT ![r] =
                [n \in Names |->
                    IF \E i \in 1..Len(ddl_files'[r]) : ddl_files'[r][i] = n
                    THEN "Located" ELSE "None"]]
    /\ listing' = [listing EXCEPT ![r] = "ok"]
    /\ idx' = [idx EXCEPT ![r] = 1]
    /\ pc' = [pc EXCEPT ![r] = "loop"]
    /\ UNCHANGED <<store, disk, clock, edits, runs, hashes, filesdict, sql, matched, exitcode,
                   executed, deployed, lostExec, raced>>

\* Mutant of FindOSError: the OSError is not caught and ends the process with
\* a traceback, exit status 1.
FindOSErrorRaises(r) ==
    /\ pc[r] = "find"
    /\ listing' = [listing EXCEPT ![r] = "oserror"]
    /\ pc' = [pc EXCEPT ![r] = "exited"]
    /\ exitcode' = [exitcode EXCEPT ![r] = <<1>>]
    /\ UNCHANGED <<store, disk, clock, edits, runs, hashes, filesdict, ddl_files, idx,
                   sql, matched, fstate, executed, deployed, lostExec, raced>>

\* find_ddl_files, os.listdir raising OSError.
FindOSError(r) ==
    /\ pc[r] = "find"
    /\ ddl_files' = [ddl_files EXCEPT ![r] = <<>>]
    /\ listing' = [listing EXCEPT ![r] = "oserror"]
    /\ idx' = [idx EXCEPT ![r] = 1]
    /\ pc' = [pc EXCEPT ![r] = "loop"]
    /\ UNCHANGED <<store, disk, clock, edits, runs, hashes, filesdict, sql, matched, exitcode,
                   fstate, executed, deployed, lostExec, raced>>

\* The loop takes the next file: get_sql and matches_saved_hash.
HashCheck(r) ==
    /\ pc[r] = "loop"
    /\ idx[r] <= Len(ddl_files[r])
    /\ sql' = [sql EXCEPT ![r] = disk[Current(r)]]
    /\ matched' = [matched EXCEPT ![r] =
            MatchesSavedHash(hashes[r], filesdict[r], Current(r), sql'[r])]
    /\ fstate' = [fstate EXCEPT ![r][Current(r)] = "HashChecked"]
    /\ pc' = [pc EXCEPT ![r] = "checked"]
    /\ UNCHANGED <<store, disk, clock, edits, runs, hashes, filesdict, ddl_files, idx, exitcode,
                   listing, executed, deployed, lostExec, raced>>

\* The hashes match: continue with the next file.
Skip(r) ==
    /\ pc[r] = "checked"
    /\ matched[r]
    /\ fstate' = [fstate EXCEPT ![r][Current(r)] = "Skipped"]
    /\ idx' = [idx EXCEPT ![r] = @ + 1]
    /\ pc' = [pc EXCEPT ![r] = "loop"]
    /\ UNCHANGED <<store, disk, clock, edits, runs, hashes, filesdict, ddl_files, sql, matched,
                   exitcode, listing, executed, deployed, lostExec, raced>>

\* The hashes differ: execute_sql is called.
StartExecute(r) ==
    /\ pc[r] = "checked"
    /\ ~matched[r]
    /\ fstate' = [fstate EXCEPT ![r][Current(r)] = "Executing"]
    /\ pc' = [pc EXCEPT ![r] = "exec"]
    /\ UNCHANGED <<store, disk, clock, edits, runs, hashes, filesdict, ddl_files, idx, sql,
                   matched, exitcode, listing, executed, deployed, lostExec, raced>>

\* bq exits 0: execute_sql returns.
ExecuteOk(r) ==
    /\ pc[r] = "exec"
    /\ executed' = [executed EXCEPT ![r][Current(r)] = sql[r]]
    /\ pc' = [pc EXCEPT ![r] = "update"]
    /\ UNCHANGED <<store, disk, clock, edits, runs, hashes, filesdict, ddl_files, idx, sql,
                   matched, exitcode, fstate, listing, deployed, lostExec, raced>>

\* Mutants of AfterExecuteError: the error is logged and deploy() goes on to
\* save the hash, or goes back to the loop.
AfterExecuteErrorLogged == "update"
AfterExecuteErrorRetry == "loop"

\* Where deploy() goes when execute_sql raises CalledProcessError: sys.exit(3).
AfterExecuteError == "exited"

\* bq exits non-zero: CalledProcessError, logged, sys.exit(3).
ExecuteFail(r) ==
    /\ pc[r] = "exec"
    /\ fstate' = [fstate EXCEPT ![r][Current(r)] = "Failed"]
    /\ pc' = [pc EXCEPT ![r] = AfterExecuteError]
    /\ exitcode' = [exitcode EXCEPT ![r] =
            IF AfterExecuteError = "exited" THEN <<ExitFailure>> ELSE @]
    /\ UNCHANGED <<store, disk, clock, edits, runs, hashes, filesdict, ddl_files, idx, sql,
                   matched, listing, executed, deployed, lostExec, raced>>

\* Mutant of UpdateSavedHash: the update also writes the record to the store.
UpdateSavedHashAutosave(r) ==
    /\ pc[r] = "update"
    /\ hashes' = [hashes EXCEPT ![r] =
            SavedHashes(store, UpdatedHashes(hashes[r], filesdict[r], Current(r),
                                             sql[r], clock))]
    /\ store' = SavedStore(store, UpdatedHashes(hashes[r], filesdict[r], Current(r),
                                                sql[r], clock))
    /\ filesdict' = [filesdict EXCEPT ![r] =
            UpdatedFilesdict(hashes[r], filesdict[r], Current(r))]
    /\ clock' = clock + 1
    /\ pc' = [pc EXCEPT ![r] = "save"]
    /\ UNCHANGED <<disk, edits, runs, ddl_files, idx, sql, matched, exitcode, fstate,
                   listing, executed, deployed, lostExec, raced>>

\* hash_store.update_saved_hash(ddl_file, sql)
UpdateSavedHash(r) ==
    /\ pc[r] = "update"
    /\ hashes' = [hashes EXCEPT ![r] =
            UpdatedHashes(hashes[r], filesdict[r], Current(r), sql[r], clock)]
    /\ filesdict' = [filesdict EXCEPT ![r] =
            UpdatedFilesdict(hashes[r], filesdict[r], Current(r))]
    /\ clock' = clock + 1
    /\ pc' = [pc EXCEPT ![r] = "save"]
    /\ UNCHANGED <<store, disk, edits, runs, ddl_files, idx, sql, matched, exitcode, fstate,
                   listing, executed, deployed, lostExec, raced>>

\* hash_store.save(), and on to the next file.
Save(r) ==
    /\ pc[r] = "save"
    /\ store' = SavedStore(store, hashes[r])
    /\ hashes' = [hashes EXCEPT ![r] = SavedHashes(store, hashes[r])]
    /\ fstate' = [fstate EXCEPT ![r][Current(r)] = "Deployed"]
    /\ deployed' = [deployed EXCEPT ![Current(r)] = executed[r][Current(r)]]
    /\ lostExec' = [lostExec EXCEPT ![Current(r)] = NoFile]
    /\ idx' = [idx EXCEPT ![r] = @ + 1]
    /\ pc' = [pc EXCEPT ![r] = "loop"]
    /\ UNCHANGED <<disk, clock, edits, runs, filesdict, ddl_files, sql, matched,
                   exitcode, listing, executed, raced>>

\* The loop is over: deploy() and main() return, the process exits 0.
Finish(r) ==
    /\ pc[r] = "loop"
    /\ idx[r] > Len(ddl_files[r])
    /\ pc' = [pc EXCEPT ![r] = "exited"]
    /\ exitcode' = [exitcode EXCEPT ![r] = <<0>>]
    /\ UNCHANGED <<store, disk, clock, edits, runs, hashes, filesdict, ddl_files, idx, sql,
                   matched, fstate, listing, executed, deployed, lostExec, raced>>

\* The process is lost (killed from outside) wherever it is; its memory is gone.
Kill(r) ==
    /\ Active(r)
    /\ pc' = [pc EXCEPT ![r] = "killed"]
    /\ lostExec' = IF pc[r] \in {"update", "save"}
                   THEN [lostExec EXCEPT ![Current(r)] = sql[r]]
                   ELSE lostExec
    /\ hashes' = [hashes EXCEPT ![r] = NoRecord]
    /\ filesdict' = [filesdict EXCEPT ![r] = <<>>]
    /\ ddl_files' = [ddl_files EXCEPT ![r] = <<>>]
    /\ idx' = [idx EXCEPT ![r] = 1]
    /\ sql' = [sql EXCEPT ![r] = NoFile]
    /\ matched' = [matched EXCEPT ![r] = FALSE]
    /\ UNCHANGED <<store, disk, clock, edits, runs, exitcode, fstate, listing, executed,
                   deployed, raced>>

Step(r) ==
    \/ FindOk(r)
    \/ FindOSError(r)
    \/ HashCheck(r)
    \/ Skip(r)
    \/ StartExecute(r)
    \/ ExecuteOk(r)
    \/ ExecuteFail(r)
    \/ UpdateSavedHash(r)
    \/ Save(r)
    \/ Finish(r)
    \/ Kill(r)

Edit == \E n \in Names, c \in Contents \cup {NoFile} : EditFile(n, c)

\* Runs one after the other.
Next ==
    \/ \E r \in Procs : Load(r, TRUE)
    \/ \E r \in Procs : Step(r)
    \/ Edit

Spec == Init /\ [][Next]_vars

\* Runs that may overlap on the same record.
NextConc ==
    \/ \E r \in Procs : Load(r, FALSE)
    \/ \E r \in Procs : Step(r)

SpecConc == Init /\ [][NextConc]_vars

\* ------------------------------------------------- the hash store alone
\* A caller constructs one ProjectRepoHashes and then calls update_saved_hash,
\* with any name and text, and save, in any order.
ApiLoad(r) ==
    /\ r = 1
    /\ pc[r] = "idle"
    /\ hashes' = [hashes EXCEPT ![r] = LoadHashes(store, clock)]
    /\ filesdict' = [filesdict EXCEPT ![r] = FilesDict(hashes'[r].files)]
    /\ clock' = clock + 1
    /\ pc' = [pc EXCEPT ![r] = "api"]
    /\ UNCHANGED <<store, disk, edits, runs, ddl_files, idx, sql, matched, exitcode,
                   fstate, listing, executed, deployed, lostExec, raced>>

\* update_saved_hash(n, c); the call's arguments are kept in ddl_files and sql.
ApiUpdate(r, n, c) ==
    /\ pc[r] = "api"
    /\ clock <= MaxCalls + 1
    /\ ddl_files' = [ddl_files EXCEPT ![r] = <<n>>]
    /\ sql' = [sql EXCEPT ![r] = c]
    /\ hashes' = [hashes EXCEPT ![r] =
            UpdatedHashes(hashes[r], filesdict[r], n, c, clock)]
    /\ filesdict' = [filesdict EXCEPT ![r] = UpdatedFilesdict(hashes[r], filesdict[r], n)]
    /\ clock' = clock + 1
    /\ UNCHANGED <<store, disk, edits, runs, pc, idx, matched, exitcode, fstate,
                   listing, executed, deployed, lostExec, raced>>

\* save()
ApiSave(r) ==
    /\ pc[r] = "api"
    /\ store' = SavedStore(store, hashes[r])
    /\ hashes' = [hashes EXCEPT ![r] = SavedHashes(store, hashes[r])]
    /\ UNCHANGED <<disk, clock, edits, runs, pc, filesdict, ddl_files, idx, sql,
                   matched, exitcode, fstate, listing, executed, deployed, lostExec,
                   raced>>

NextApi ==
    \/ \E r \in Procs : ApiLoad(r)
    \/ \E r \in Procs, n \in Names, c \in Contents : ApiUpdate(r, n, c)
    \/ \E r \in Procs : ApiSave(r)

SpecApi == Init /\ [][NextApi]_vars

\* ============================================================= claims
\* The record of the runs' triple in the collection, and what it and a run's
\* in-memory record hold for a file.
RecordsOfTriple == {i \in 1..Len(store) : store[i].triple = Triple}
StoredRecord == FindOne(store, Triple)
StoredHash(f) == GetFileHash(StoredRecord, FilesDict(StoredRecord.files), f)
MemHash(r, f) == GetFileHash(hashes[r], filesdict[r], f)
Listed(r) == {f \in Names : fstate[r][f] # "None"}

\* ------------------------------------------------------------------ C1
\* C1: a fingerprint changes, in a run's memory or in the store, only for a file
\* whose execute_sql returned successfully in that run, and to the digest of
\* the text executed; a failing execute_sql leaves the run's record, its index
\* and the store as they were, and no text counts as executed for the file.
C1_MemoryOnlyAfterSuccess ==
    \A r \in Procs :
        (Active(r) /\ pc'[r] # "killed" /\ hashes'[r] # hashes[r])
            => \A f \in Names :
                  MemHash(r, f)' # MemHash(r, f)
                      => /\ executed[r][f] # NoFile
                         /\ MemHash(r, f)' = MD5(executed[r][f])

C1_StoreOnlyAfterSuccess ==
    store' # store
        => \A f \in Names :
              StoredHash(f)' # StoredHash(f)
                  => \E r \in Procs : /\ Active(r)
                                      /\ executed[r][f] # NoFile
                                      /\ StoredHash(f)' = MD5(executed[r][f])

C1_FailureChangesNothing ==
    \A r \in Procs :
        (pc[r] = "exec" /\ pc'[r] # "update" /\ pc'[r] # "killed")
            => /\ hashes'[r] = hashes[r]
               /\ filesdict'[r] = filesdict[r]
               /\ store' = store
               /\ executed'[r] = executed[r]

C1_FingerprintOnlyAfterSuccess ==
    [][C1_MemoryOnlyAfterSuccess /\ C1_StoreOnlyAfterSuccess
         /\ C1_FailureChangesNothing]_vars

\* A file failed after an earlier deployment had left it an older fingerprint,
\* which the store and the run's memory still hold.
C1_Witness ==
    \E r \in Procs, f \in Names :
        /\ fstate[r][f] = "Failed"
        /\ StoredHash(f) # EmptyHash
        /\ StoredHash(f) # MD5(disk[f])
        /\ MemHash(r, f) = StoredHash(f)

\* ------------------------------------------------------------------ C2
\* C2: a file fails exactly in a run that exited with status 3, and in such a
\* run every file after the failing one in sorted order is still Located: it was
\* not hash-checked, not executed and not persisted.
C2_FailFast ==
    \A r \in Procs :
        /\ (pc[r] = "exited" /\ exitcode[r] = <<ExitFailure>>)
              <=> (\E f \in Names : fstate[r][f] = "Failed")
        /\ \A f \in Names :
              fstate[r][f] = "Failed"
                => \A g \in Listed(r) :
                      g > f => fstate[r][g] = "Located" /\ executed[r][g] = NoFile

C2_Witness ==
    \E r \in Procs :
        /\ exitcode[r] = <<ExitFailure>>
        /\ fstate[r][1] = "Failed"
        /\ fstate[r][2] = "Located"

\* ------------------------------------------------------------------ C3
\* C3: right after update_saved_hash(name, C), matches_saved_hash(name, C) is true;
\* the Executor is never invoked for a file whose text is the text last
\* deployed and persisted for it, so not at all over a folder whose every file
\* is deployed as it stands.
FullyDeployed == \A f \in Names : disk[f] # NoFile => deployed[f] = disk[f]

C3_SkipUnchanged ==
    \A r \in Procs :
        /\ pc[r] = "save"
              => MatchesSavedHash(hashes[r], filesdict[r], Current(r), sql[r])
        /\ (pc[r] = "checked" /\ deployed[Current(r)] = sql[r]) => matched[r]
        /\ pc[r] \in {"exec", "update", "save"}
              => deployed[Current(r)] # sql[r] /\ ~FullyDeployed

\* A second run has skipped every file of a folder that a run of the model
\* deployed.
C3_Witness ==
    /\ runs = 2
    /\ StoredRecord.create_date > 0
    /\ \E r \in Procs :
          /\ pc[r] = "exited"
          /\ exitcode[r] = <<0>>
          /\ \A f \in Names : fstate[r][f] = "Skipped"

\* ------------------------------------------------------------------ C4
\* C4: at every point of a run, and after it ended by exit or by a kill, the one
\* stored record holds the digest of the text executed for every file the run
\* has deployed and saved.
C4_ImmediatePersistence ==
    \A r \in Procs, f \in Names :
        fstate[r][f] = "Deployed"
            => /\ Cardinality(RecordsOfTriple) = 1
               /\ StoredHash(f) = MD5(executed[r][f])

\* The run exited with status 3 on the second file and the first file's new
\* fingerprint is in the store.
C4_Witness ==
    \E r \in Procs :
        /\ exitcode[r] = <<ExitFailure>>
        /\ fstate[r][1] = "Deployed"
        /\ fstate[r][2] = "Failed"
        /\ StoredHash(1) = MD5(disk[1])

\* ------------------------------------------------------------------ C5
\* What a load and a save do to the record's identity: a load that finds no
\* record of the triple yields a record with no files and no identity; the
\* stored record has one entry per file ever persisted; a run's record that has
\* an identity has the stored record's.
C5_LoadAndIdentity ==
    /\ Len(StoredRecord.files) = Cardinality({f \in Names : deployed[f] # NoFile})
    /\ \A r \in Procs :
          /\ (pc[r] = "find" /\ RecordsOfTriple = {})
                => hashes[r].files = <<>> /\ hashes[r]._id = 0
          /\ (Active(r) /\ hashes[r]._id # 0) => StoredRecord._id = hashes[r]._id

\* C5 (as amended): with runs one after the other the collection never holds
\* more than one record of the triple, and holds exactly one from the first
\* persist on; a load that finds none yields a record with no files and no
\* identity, and the stored record has one entry per file ever persisted.
C5_OneRecordPerTriple ==
    /\ C5_LoadAndIdentity
    /\ Cardinality(RecordsOfTriple) <= 1
    /\ (\E f \in Names : deployed[f] # NoFile) => Cardinality(RecordsOfTriple) = 1

\* C5 (as stated): after any sequence of runs, one after the other, the
\* collection holds exactly one record of the triple: stated of every state in
\* which a run has exited.
C5_ExactlyOneAfterRuns ==
    /\ C5_LoadAndIdentity
    /\ (\E r \in Procs : pc[r] = "exited") => Cardinality(RecordsOfTriple) = 1

\* A record created by a run (an insert) and then persisted again (a replace).
C5_Witness ==
    /\ Cardinality(RecordsOfTriple) = 1
    /\ StoredRecord.create_date > 0
    /\ Len(StoredRecord.files) = 2

\* ------------------------------------------------------------------ C6
\* C6: with runs one after the other the stored record holds, for every file,
\* the digest of the text whose execution succeeded before the file's last
\* completed save, and nothing for a file never saved; and a run that meets, with
\* unchanged text, a file whose execution succeeded in a process lost before
\* its save completed finds no match, so it executes the file again: once a run
\* is past the file, the file is no longer in that condition.
C6_AtLeastOnce ==
    /\ \A f \in Names :
          StoredHash(f) = IF deployed[f] = NoFile THEN EmptyHash ELSE MD5(deployed[f])
    /\ \A r \in Procs :
          /\ (pc[r] = "checked" /\ lostExec[Current(r)] = sql[r]) => ~matched[r]
          /\ (pc[r] = "loop" /\ idx[r] > 1)
                => lostExec[ddl_files[r][idx[r] - 1]] # disk[ddl_files[r][idx[r] - 1]]

\* The run after the loss is executing the file again, its text unchanged.
C6_Witness ==
    \E r \in Procs :
        /\ pc[r] = "exec"
        /\ lostExec[Current(r)] = sql[r]

\* ------------------------------------------------------------------ C7
\* C7: the stored record lacks the fingerprint of a completed deployment, or
\* the triple has more than one record, only when two runs overlapped.
LostFingerprint ==
    \E f \in Names : deployed[f] # NoFile /\ StoredHash(f) # MD5(deployed[f])

C7_LostUpdateOnlyByRace ==
    (LostFingerprint \/ Cardinality(RecordsOfTriple) > 1) => raced

\* Both runs are over, each deployed and persisted a file, and the stored
\* record holds an older fingerprint than the one last persisted for a file.
C7_Witness ==
    /\ \A r \in Procs : pc[r] \in {"exited", "killed"}
    /\ Cardinality(RecordsOfTriple) = 1
    /\ \E f \in Names :
          /\ deployed[f] # NoFile
          /\ StoredHash(f) # EmptyHash
          /\ StoredHash(f) # MD5(deployed[f])
          /\ \E r \in Procs : fstate[r][f] = "Deployed"

\* ------------------------------------------------------------------ C8
\* C8: under calls of update_saved_hash with any names and texts, no two
\* entries of a record, in memory or stored, share a file_name, and filesdict
\* has exactly the names of files; update_saved_hash of a name that has an
\* entry changes that entry's hash and deploy_date in place and keeps its
\* create_date and every other entry, and of a new name appends exactly one
\* entry.
UniqueNames(files) ==
    \A i, j \in 1..Len(files) : files[i].file_name = files[j].file_name => i = j

NamesOf(files) == {files[i].file_name : i \in 1..Len(files)}

C8_RecordsWellFormed ==
    /\ \A i \in 1..Len(store) : UniqueNames(store[i].files)
    /\ \A r \in Procs :
          /\ UniqueNames(hashes[r].files)
          /\ DOMAIN filesdict[r] = NamesOf(hashes[r].files)
          /\ \A n \in DOMAIN filesdict[r] :
                hashes[r].files[filesdict[r][n]].file_name = n

C8_UpdateStep ==
    \A r \in Procs :
        (pc[r] = "api" /\ clock' # clock)
          => LET old == hashes[r].files
                 new == hashes'[r].files
                 n == ddl_files'[r][1]
                 h == MD5(sql'[r])
             IN IF n \in NamesOf(old)
                THEN /\ Len(new) = Len(old)
                     /\ \A i \in 1..Len(old) :
                           IF old[i].file_name = n
                           THEN new[i] = [old[i] EXCEPT !.file_hash = h,
                                                        !.deploy_date = clock]
                           ELSE new[i] = old[i]
                ELSE /\ Len(new) = Len(old) + 1
                     /\ SubSeq(new, 1, Len(old)) = old
                     /\ new[Len(new)] = [file_name |-> n, file_hash |-> h,
                                         deploy_date |-> clock, create_date |-> clock]

C8_UniqueFileNames == []C8_RecordsWellFormed /\ [][C8_UpdateStep]_vars

\* An entry appended by one call was updated in place by a later call: it is
\* the first entry of two and was deployed after it was created.
C8_Witness ==
    \E r \in Procs :
        /\ pc[r] = "api"
        /\ Len(hashes[r].files) = 2
        /\ hashes[r].files[1].create_date > 0
        /\ hashes[r].files[1].file_name = ddl_files[r][1]
        /\ hashes[r].files[1].deploy_date > hashes[r].files[2].create_date

\* ------------------------------------------------------------------ C9
\* C9: a file's state moves only along Located -> HashChecked -> Skipped or
\* Executing -> Deployed or Failed; a run has at most one file between its hash
\* check and its end; a file is past Located only when every file before it in
\* sorted order is Skipped or Deployed; a skipped file was not executed.
FileEdges ==
    {<<"None", "Located">>, <<"Located", "HashChecked">>,
     <<"HashChecked", "Skipped">>, <<"HashChecked", "Executing">>,
     <<"Executing", "Deployed">>, <<"Executing", "Failed">>}

C9_Order ==
    \A r \in Procs :
        /\ Cardinality({f \in Names : fstate[r][f] \in {"HashChecked", "Executing"}}) <= 1
        /\ \A f, g \in Listed(r) :
              (g < f /\ fstate[r][f] # "Located")
                  => fstate[r][g] \in {"Skipped", "Deployed"}
        /\ \A f \in Names :
              /\ fstate[r][f] \in {"None", "Located", "HashChecked", "Skipped"}
                    => executed[r][f] = NoFile
              /\ fstate[r][f] = "Deployed" => executed[r][f] # NoFile

C9_Edges ==
    \A r \in Procs, f \in Names :
        fstate'[r][f] # fstate[r][f]
            => \/ <<fstate[r][f], fstate'[r][f]>> \in FileEdges
               \/ ~Active(r) /\ pc'[r] = "find" /\ fstate'[r][f] = "None"

C9_SortedSequential == []C9_Order /\ [][C9_Edges]_vars

\* The first file was skipped and the second is being executed.
C9_Witness ==
    \E r \in Procs : fstate[r][1] = "Skipped" /\ fstate[r][2] = "Executing"

\* ----------------------------------------------------------------- C10
\* C10: a run whose directory listing failed has an empty file list, executes
\* nothing, writes nothing to the store and, when it exits, exits 0; a run that
\* exited did so with 0 exactly when no located file is short of Skipped or
\* Deployed, and with 3 otherwise.
C10_Exit ==
    \A r \in Procs :
        /\ listing[r] = "oserror"
              => /\ pc[r] \in {"loop", "exited", "killed"}
                 /\ Active(r) => ddl_files[r] = <<>>
                 /\ Listed(r) = {}
                 /\ \A f \in Names : executed[r][f] = NoFile
                 /\ pc[r] = "exited" => exitcode[r] = <<0>>
        /\ pc[r] = "exited"
              => /\ exitcode[r] \in {<<0>>, <<ExitFailure>>}
                 /\ exitcode[r] = <<0>>
                       <=> \A f \in Listed(r) : fstate[r][f] \in {"Skipped", "Deployed"}
        /\ pc[r] # "exited" => exitcode[r] = <<>>

C10_NoWrite ==
    \A r \in Procs : (Active(r) /\ listing[r] = "oserror") => store' = store

C10_ListingFailureExitsZero == []C10_Exit /\ [][C10_NoWrite]_vars

\* A run whose listing failed has exited 0 over a folder that has files to
\* deploy.
C10_Witness ==
    \E r \in Procs :
        /\ listing[r] = "oserror"
        /\ pc[r] = "exited"
        /\ exitcode[r] = <<0>>
        /\ ~FullyDeployed

====
